---- MODULE Spec2Model ----
(***************************************************************************)
(* A model of backend/server.py of PrivateEquity_DealScreener: the LBO     *)
(* quick model (lbo_quick), the deal store handlers (create_deal,          *)
(* update_deal, delete_deal, list_deals, screener, seed_demo), the chunked *)
(* upload (upload_init, upload_chunk, upload_complete) and update_deal and *)
(* delete_deal served concurrently, storage call by storage call.          *)
(*                                                                         *)
(* Numbers.  The program computes in IEEE doubles.  The model computes in  *)
(* exact rationals <<n, d>> (d > 0, lowest terms), so a float is modelled  *)
(* by the real number it approximates; round(x, 2) is modelled as          *)
(* rounding half to even on the exact value.  NaN and the infinities are   *)
(* not modelled.  Python's None is NoneQ for an Optional[float] and NoneS  *)
(* for an Optional[str].                                                   *)
(***************************************************************************)
EXTENDS Integers, Sequences, FiniteSets, TLC

VARIABLES
    \* lbo_quick: the request and the locals of the handler
    req, pc, y, revenue, ebitda, debt, entry_ev, equity,
    interest, capex, nwc_change, tax, fcf, yearly,
    exit_ev, equity_exit, moic, resp, error,
    \* the deals collection (db.deals), the clock behind _now(), the ids
    \* uuid4 has handed out, and the outcome of the last request
    deals, clock, nextId, last,
    \* history: the ids whose stored ev_ebitda is a value a caller supplied
    supplied,
    \* the folders under UPLOAD_ROOT with their files
    uploads,
    \* the requests being served concurrently: position and locals of each
    procs

lboVars == <<req, pc, y, revenue, ebitda, debt, entry_ev, equity,
             interest, capex, nwc_change, tax, fcf, yearly,
             exit_ev, equity_exit, moic, resp, error>>
dealVars == <<deals, clock, nextId, last, supplied>>
vars == <<lboVars, dealVars, uploads, procs>>

----------------------------------------------------------------------------
(* Exact rational arithmetic standing for Python float arithmetic.         *)

Abs(n) == IF n < 0 THEN -n ELSE n

RECURSIVE GCD(_, _)
GCD(a, b) == IF b = 0 THEN a ELSE GCD(b, a % b)

\* The rational n/d in lowest terms with a positive denominator (d # 0).
Q(n, d) ==
    LET g == GCD(Abs(n), Abs(d))
        s == IF d < 0 THEN -1 ELSE 1
    IN  <<(s * n) \div g, (s * d) \div g>>

QInt(n) == <<n, 1>>
Zero == QInt(0)
One == QInt(1)

QNeg(a) == <<-a[1], a[2]>>

QAdd(a, b) ==
    LET l == (a[2] \div GCD(a[2], b[2])) * b[2]
    IN  Q(a[1] * (l \div a[2]) + b[1] * (l \div b[2]), l)

QSub(a, b) == QAdd(a, QNeg(b))

QMul(a, b) ==
    LET g1 == GCD(Abs(a[1]), b[2])
        g2 == GCD(Abs(b[1]), a[2])
    IN  Q((a[1] \div g1) * (b[1] \div g2), (a[2] \div g2) * (b[2] \div g1))

\* a / b for b # 0; the callers decide what a zero divisor does.
QDiv(a, b) == QMul(a, Q(b[2], b[1]))

QLt(a, b) == QSub(a, b)[1] < 0
QLe(a, b) == QSub(a, b)[1] <= 0

\* Python's max(a, b).
QMax(a, b) == IF QLt(a, b) THEN b ELSE a

\* Python's round(x, 2): the nearest multiple of 1/100, a tie going to
\* the even one.
Round2(x) ==
    LET d == x[2]
        q == x[1] \div d
        r == x[1] - q * d
        f == (100 * r) \div d
        rem == 100 * r - f * d
        up == \/ 2 * rem > d
              \/ 2 * rem = d /\ (100 * q + f) % 2 = 1
    IN  Q(100 * q + f + (IF up THEN 1 ELSE 0), 100)

----------------------------------------------------------------------------
(* Python's None and truthiness.                                           *)

NoneQ == <<0, 0>>
NoneS == "<None>"
IsNoneQ(x) == x[2] = 0

\* bool(x) of an Optional[float] and of an Optional[str].
Truthy(x) == ~IsNoneQ(x) /\ x # Zero
TruthyS(x) == x # NoneS /\ x # ""

\* float(x or 0)
OrZero(x) == IF Truthy(x) THEN x ELSE Zero

----------------------------------------------------------------------------
(* The metric utilities and the record normalizer.                         *)

compute_ev_ebitda(ev, ebt) ==
    IF ebt = Zero THEN Zero ELSE Round2(QDiv(ev, ebt))

compute_score(d) ==
    LET growth == OrZero(d.growth_rate)
        margin == OrZero(d.ebitda_margin)
        mult   == OrZero(d.ev_ebitda)
        over   == QMax(QSub(mult, QInt(5)), Zero)
        score  == QMul(QInt(100),
                       QAdd(QAdd(QMul(Q(4, 10), margin), QMul(Q(4, 10), growth)),
                            QMul(Q(2, 10), QDiv(One, QAdd(One, over)))))
    IN  Round2(score)

serialize_deal(doc) ==
    LET out == [id            |-> doc["_id"],
                name          |-> doc.name,
                sector        |-> doc.sector,
                subsector     |-> doc.subsector,
                geography     |-> doc.geography,
                revenue       |-> OrZero(doc.revenue),
                ebitda        |-> OrZero(doc.ebitda),
                ebitda_margin |-> OrZero(doc.ebitda_margin),
                ev            |-> OrZero(doc.ev),
                ev_ebitda     |-> IF Truthy(doc.ev_ebitda)
                                  THEN doc.ev_ebitda
                                  ELSE compute_ev_ebitda(OrZero(doc.ev),
                                                         OrZero(doc.ebitda)),
                growth_rate   |-> OrZero(doc.growth_rate),
                net_debt      |-> OrZero(doc.net_debt),
                deal_stage    |-> doc.deal_stage,
                source        |-> doc.source,
                created_at    |-> doc.created_at,
                updated_at    |-> doc.updated_at]
    IN  ("score" :> compute_score(out)) @@ out

----------------------------------------------------------------------------
(* The deals collection: a sequence of documents in storage order.         *)

StrFields == {"name", "sector", "subsector", "geography", "deal_stage", "source"}
FloatFields == {"revenue", "ebitda", "ebitda_margin", "ev", "ev_ebitda",
                "growth_rate", "net_debt"}

\* db.deals.find_one({"_id": id}): the position of the document, 0 if none.
find_one_or_oldest(store, id) ==
    IF \E i \in 1 .. Len(store) : store[i]["_id"] = id
    THEN CHOOSE i \in 1 .. Len(store) : store[i]["_id"] = id
    ELSE IF store = <<>> THEN 0 ELSE 1
find_one(store, id) ==
    IF \E i \in 1 .. Len(store) : store[i]["_id"] = id
    THEN CHOOSE i \in 1 .. Len(store) : store[i]["_id"] = id
    ELSE 0

\* {"$set": u} on the document at position i.
set_fields_every(store, i, u) == [j \in 1 .. Len(store) |-> u @@ store[j]]
set_fields(store, i, u) == [store EXCEPT ![i] = u @@ store[i]]

\* db.deals.delete_one({"_id": id}) on a stored id.
delete_one_oldest(store, id) == Tail(store)
delete_one(store, id) == SelectSeq(store, LAMBDA d : d["_id"] # id)

\* The outcome of a request, kept for the claims: the operation, its
\* HTTP status, the id and the payload it was given, what it returned (a
\* sequence of DealOut) and the collection before it ran.
Outcome(op, status, id, arg, out, pre) ==
    [op |-> op, status |-> status, id |-> id, arg |-> arg, out |-> out,
     pre |-> pre]

NoOutcome == Outcome("none", "", 0, <<>>, <<>>, <<>>)

\* create_deal
create_deal_ev_ebitda(p) ==
    IF ~Truthy(p.ev_ebitda)
    THEN compute_ev_ebitda(p.ev, p.ebitda)
    ELSE p.ev_ebitda

create_deal(p) ==
    /\ clock' = clock + 1
    /\ LET doc == ("_id" :> nextId) @@ ("created_at" :> clock')
                  @@ ("updated_at" :> clock')
                  @@ ("ev_ebitda" :> create_deal_ev_ebitda(p)) @@ p
       IN  /\ deals' = Append(deals, doc)
           /\ last' = Outcome("create", "200", nextId, p,
                              <<serialize_deal(doc)>>, deals)
    /\ nextId' = nextId + 1
    /\ supplied' = IF Truthy(p.ev_ebitda) THEN supplied \cup {nextId}
                   ELSE supplied
    /\ UNCHANGED <<lboVars, uploads, procs>>

\* update_deal: updates = {k: v for k, v in payload.dict().items()
\*                         if v is not None}
Updates(p) ==
    [f \in {g \in DOMAIN p :
              IF g \in StrFields THEN p[g] # NoneS ELSE ~IsNoneQ(p[g])}
       |-> p[f]]

RecomputeOnEvOnly(u) == "ev" \in DOMAIN u
RecomputeNeeded(u) == "ev" \in DOMAIN u \/ "ebitda" \in DOMAIN u

EffectiveEv(u, doc) == IF "ev" \in DOMAIN u THEN u.ev ELSE doc.ev
EffectiveEbitdaStored(u, doc) == doc.ebitda
EffectiveEbitda(u, doc) == IF "ebitda" \in DOMAIN u THEN u.ebitda ELSE doc.ebitda

update_deal(id, p) ==
    /\ clock' = clock + 1
    /\ LET u == Updates(p)
           i == find_one(deals, id)
           u2 == IF RecomputeNeeded(u) /\ i # 0
                 THEN ("ev_ebitda" :> compute_ev_ebitda(EffectiveEv(u, deals[i]),
                                                        EffectiveEbitda(u, deals[i])))
                      @@ u
                 ELSE u
           u3 == ("updated_at" :> clock') @@ u2
       IN  IF i = 0
           THEN \* 404 of line 251 or of line 258: nothing is written
                /\ last' = Outcome("update", "404", id, p, <<>>, deals)
                /\ UNCHANGED <<deals, supplied>>
           ELSE /\ deals' = set_fields(deals, i, u3)
                /\ last' = Outcome("update", "200", id, p,
                                   <<serialize_deal(deals'[i])>>, deals)
                /\ supplied' =
                      IF RecomputeNeeded(u) THEN supplied \ {id}
                      ELSE IF "ev_ebitda" \in DOMAIN u THEN supplied \cup {id}
                      ELSE supplied
    /\ UNCHANGED nextId
    /\ UNCHANGED <<lboVars, uploads, procs>>

\* delete_deal
delete_deal(id) ==
    /\ clock' = clock + 1
    /\ IF find_one(deals, id) = 0
       THEN /\ last' = Outcome("delete", "404", id, <<>>, <<>>, deals)
            /\ UNCHANGED <<deals, supplied>>
       ELSE /\ deals' = delete_one(deals, id)
            /\ last' = Outcome("delete", "200", id, <<>>, <<>>, deals)
            /\ supplied' = supplied \ {id}
    /\ UNCHANGED nextId
    /\ UNCHANGED <<lboVars, uploads, procs>>

\* seed_demo: the three fixed demo documents.
SeedDocs(id, now) ==
    LET base == [name |-> "", sector |-> "", subsector |-> "", geography |-> "",
                 revenue |-> Zero, ebitda |-> Zero, ebitda_margin |-> Zero,
                 ev |-> Zero, ev_ebitda |-> Zero, growth_rate |-> Zero,
                 net_debt |-> Zero, deal_stage |-> "", source |-> "seed",
                 created_at |-> now, updated_at |-> now]
    IN  << ("_id" :> id) @@
           [base EXCEPT !.name = "Acme Logistics", !.sector = "Industrials",
                        !.subsector = "Logistics", !.geography = "US",
                        !.revenue = QInt(250), !.ebitda = Q(375, 10),
                        !.ebitda_margin = Q(15, 100), !.ev = QInt(300),
                        !.ev_ebitda = QInt(8), !.growth_rate = Q(8, 100),
                        !.net_debt = QInt(120), !.deal_stage = "screened"],
           ("_id" :> id + 1) @@
           [base EXCEPT !.name = "CloudHealth SaaS", !.sector = "Technology",
                        !.subsector = "SaaS", !.geography = "US",
                        !.revenue = QInt(120), !.ebitda = QInt(36),
                        !.ebitda_margin = Q(30, 100), !.ev = QInt(1080),
                        !.ev_ebitda = QInt(30), !.growth_rate = Q(35, 100),
                        !.net_debt = Zero, !.deal_stage = "sourced"],
           ("_id" :> id + 2) @@
           [base EXCEPT !.name = "Euro Med Devices", !.sector = "Healthcare",
                        !.subsector = "MedTech", !.geography = "EU",
                        !.revenue = QInt(340), !.ebitda = QInt(68),
                        !.ebitda_margin = Q(20, 100), !.ev = QInt(748),
                        !.ev_ebitda = QInt(11), !.growth_rate = Q(12, 100),
                        !.net_debt = QInt(200), !.deal_stage = "diligence"] >>

seed_demo ==
    /\ clock' = clock + 1
    /\ deals' = deals \o SeedDocs(nextId, clock')
    /\ nextId' = nextId + 3
    /\ last' = Outcome("seed", "200", 0, <<>>, <<[inserted |-> 3]>>, deals)
    /\ UNCHANGED supplied
    /\ UNCHANGED <<lboVars, uploads, procs>>

----------------------------------------------------------------------------
(* list_deals and screener.                                                *)

\* The Mongo query q built from the filters: equality on a truthy sector
\* and geography, an inclusive range on revenue.
MatchesQueryNoUpperBound(doc, f) ==
    /\ TruthyS(f.sector) => doc.sector = f.sector
    /\ TruthyS(f.geography) => doc.geography = f.geography
    /\ ~IsNoneQ(f.revenue_min) => QLe(f.revenue_min, doc.revenue)
MatchesQuery(doc, f) ==
    /\ TruthyS(f.sector) => doc.sector = f.sector
    /\ TruthyS(f.geography) => doc.geography = f.geography
    /\ ~IsNoneQ(f.revenue_min) => QLe(f.revenue_min, doc.revenue)
    /\ ~IsNoneQ(f.revenue_max) => QLe(doc.revenue, f.revenue_max)

TakeNewest(s, n) == SubSeq(s, IF n < Len(s) THEN Len(s) - n + 1 ELSE 1, Len(s))
Take(s, n) == SubSeq(s, 1, IF n < Len(s) THEN n ELSE Len(s))

\* db.deals.find(q).limit(limit).to_list(length=limit), for limit >= 1
find_limit(store, f, limit) ==
    Take(SelectSeq(store, LAMBDA d : MatchesQuery(d, f)), limit)

within_ev_ebitda(x, f) ==
    LET v == OrZero(x.ev_ebitda)
    IN  /\ ~(~IsNoneQ(f.ev_ebitda_min) /\ QLt(v, f.ev_ebitda_min))
        /\ ~(~IsNoneQ(f.ev_ebitda_max) /\ QLt(f.ev_ebitda_max, v))

\* out.sort(key=score, reverse=True): a stable sort, so the result is the
\* elements of the highest score in the order they came in, then those of
\* the next score, and so on.
SameScoreReversed(s, v) ==
    LET b == SelectSeq(s, LAMBDA x : x.score = v)
    IN  [k \in 1 .. Len(b) |-> b[Len(b) + 1 - k]]
SameScore(s, v) == SelectSeq(s, LAMBDA x : x.score = v)

RECURSIVE sort_scores(_, _)
sort_scores(s, scores) ==
    IF scores = {} THEN <<>>
    ELSE LET v == CHOOSE v \in scores : \A w \in scores : QLe(w, v)
         IN  SameScore(s, v) \o sort_scores(s, scores \ {v})

sort_by_score(s) == sort_scores(s, {s[i].score : i \in 1 .. Len(s)})

SerializeAll(docs) == [i \in 1 .. Len(docs) |-> serialize_deal(docs[i])]

list_deals_result(store, f, limit) ==
    LET out == SerializeAll(find_limit(store, f, limit))
        kept == IF ~IsNoneQ(f.ev_ebitda_min) \/ ~IsNoneQ(f.ev_ebitda_max)
                THEN SelectSeq(out, LAMBDA x : within_ev_ebitda(x, f))
                ELSE out
    IN  sort_by_score(kept)

list_deals(f, limit) ==
    /\ last' = Outcome("list", "200", limit, f,
                       list_deals_result(deals, f, limit), deals)
    /\ UNCHANGED <<deals, clock, nextId, supplied>>
    /\ UNCHANGED <<lboVars, uploads, procs>>

DefaultLimit == 200

\* screener: list_deals with the filters of the body and the default limit.
screener(f) ==
    /\ last' = Outcome("screener", "200", DefaultLimit, f,
                       list_deals_result(deals, f, DefaultLimit), deals)
    /\ UNCHANGED <<deals, clock, nextId, supplied>>
    /\ UNCHANGED <<lboVars, uploads, procs>>

----------------------------------------------------------------------------
(* The upload folders.  A folder is the part files in it, by name, and the *)
(* assembled file once written; UPLOAD_ROOT itself is a folder and exists  *)
(* from the start (line 368).                                              *)

NoFile == <<"<no file>">>
EmptyFolder == [parts |-> <<>>, assembled |-> NoFile]

\* UPLOAD_ROOT / upload_id: "." names UPLOAD_ROOT itself.
NoUploads == "." :> EmptyFolder

----------------------------------------------------------------------------
(* upload_complete from the parsed frame on (lines 410-476): the column    *)
(* mapping, the row coercion and the batch insert.  A frame is its column  *)
(* names in order and its rows, each a function from column name to cell;  *)
(* a cell is a number or a text that float() refuses.                      *)

Num(q) == [kind |-> "num", num |-> q, str |-> ""]
Str(t) == [kind |-> "str", num |-> Zero, str |-> t]

\* c.lower() on the column names used here.
Lower(c) ==
    CASE c = "Company"     -> "company"
      [] c = "Sector"      -> "sector"
      [] c = "Geo"         -> "geo"
      [] c = "LTM_Revenue" -> "ltm_revenue"
      [] c = "EBITDA"      -> "ebitda"
      [] c = "Multiple"    -> "multiple"
      [] c = "EV"          -> "ev"
      [] OTHER             -> c

\* lower_cols = {c.lower(): c for c in df.columns}: a later column of the
\* same lower-case name wins.
lower_cols(cols, n) ==
    LET hits == {i \in 1 .. Len(cols) : Lower(cols[i]) = n}
    IN  IF hits = {} THEN NoneS
        ELSE cols[CHOOSE i \in hits : \A j \in hits : j <= i]

\* pick(*names): the column of the first alias that is present.
RECURSIVE pick(_, _)
pick(cols, names) ==
    IF names = <<>> THEN NoneS
    ELSE IF lower_cols(cols, names[1]) # NoneS THEN lower_cols(cols, names[1])
    ELSE pick(cols, SubSeq(names, 2, Len(names)))

col_map(cols) ==
    [name        |-> pick(cols, <<"name", "company", "company_name">>),
     sector      |-> pick(cols, <<"sector">>),
     subsector   |-> pick(cols, <<"subsector", "sub_sector">>),
     geography   |-> pick(cols, <<"geography", "geo", "country", "region">>),
     revenue     |-> pick(cols, <<"revenue", "ltm_revenue", "ntm_revenue">>),
     ebitda      |-> pick(cols, <<"ebitda", "ltm_ebitda", "ntm_ebitda">>),
     ev          |-> pick(cols, <<"ev", "enterprise_value">>),
     ev_ebitda   |-> pick(cols, <<"ev/ebitda", "ev_ebitda", "multiple">>),
     growth_rate |-> pick(cols, <<"growth", "growth_rate", "revenue_growth">>),
     net_debt    |-> pick(cols, <<"net_debt", "debt">>)]

required == <<"name", "sector", "geography", "revenue", "ebitda">>

MissingRequiredName(m) == ~TruthyS(m.name)
MissingRequired(m) == \E i \in 1 .. Len(required) : ~TruthyS(m[required[i]])

\* str(cell): the text itself, or the rendering of the number.
PyStr(cell) == IF cell.kind = "str" THEN cell.str ELSE ToString(cell.num)

\* Whether the try block of a row raises: row[None] for a field that has
\* no column, or float() of a text cell in a numeric column that is mapped.
RowRaises(m, row) ==
    \/ \E f \in {"name", "sector", "geography", "revenue", "ebitda"} :
          m[f] = NoneS
    \/ \E f \in {"revenue", "ebitda", "ev", "ev_ebitda", "growth_rate", "net_debt"} :
          TruthyS(m[f]) /\ row[m[f]].kind = "str"

\* The document built from a row that does not raise.
RowDoc(m, row, rid, now) ==
    LET rev   == row[m.revenue].num
        ebt   == row[m.ebitda].num
        ev_   == IF TruthyS(m.ev) THEN row[m.ev].num
                 ELSE QMul(QMax(ebt, Zero), QInt(8))
        mult  == IF TruthyS(m.ev_ebitda) THEN row[m.ev_ebitda].num
                 ELSE compute_ev_ebitda(ev_, ebt)
    IN  ("_id" :> rid) @@
        [name          |-> PyStr(row[m.name]),
         sector        |-> PyStr(row[m.sector]),
         subsector     |-> IF TruthyS(m.subsector) THEN PyStr(row[m.subsector])
                           ELSE NoneS,
         geography     |-> PyStr(row[m.geography]),
         revenue       |-> rev,
         ebitda        |-> ebt,
         ebitda_margin |-> IF rev # Zero THEN QDiv(ebt, rev) ELSE Zero,
         ev            |-> ev_,
         ev_ebitda     |-> mult,
         growth_rate   |-> IF TruthyS(m.growth_rate) THEN row[m.growth_rate].num
                           ELSE Zero,
         net_debt      |-> IF TruthyS(m.net_debt) THEN row[m.net_debt].num
                           ELSE Zero,
         deal_stage    |-> "sourced",
         source        |-> "csv_upload",
         created_at    |-> now,
         updated_at    |-> now]

\* records: the documents of the rows that do not raise, in row order,
\* each with a fresh id.
RecordsUntilFailure(m, rows, rid, now) ==
    LET bad   == {k \in 1 .. Len(rows) : RowRaises(m, rows[k])}
        first == IF bad = {} THEN Len(rows) + 1
                 ELSE CHOOSE k \in bad : \A j \in bad : k <= j
    IN  [k \in 1 .. first - 1 |-> RowDoc(m, rows[k], rid + k - 1, now)]
Records(m, rows, rid, now) ==
    LET good == SelectSeq(rows, LAMBDA row : ~RowRaises(m, row))
    IN  [k \in 1 .. Len(good) |-> RowDoc(m, good[k], rid + k - 1, now)]

\* upload_complete from line 410 on, for the frame df read from the
\* assembled file of upload_id.
upload_complete_frame(upload_id, df) ==
    /\ clock' = clock + 1
    /\ LET m == col_map(df.columns) IN
       IF MissingRequired(m)
       THEN /\ last' = Outcome("upload_complete", "400", upload_id, df,
                               <<[detail |-> "Missing required column in CSV"]>>,
                               deals)
            /\ UNCHANGED <<deals, nextId, supplied>>
       ELSE LET records == Records(m, df.rows, nextId, clock') IN
            /\ deals' = deals \o records
            /\ nextId' = nextId + Len(records)
            /\ last' = Outcome("upload_complete", "200", upload_id, df,
                               <<[inserted |-> Len(records)]>>, deals)
            /\ supplied' = IF TruthyS(m.ev_ebitda)
                           THEN supplied \cup (nextId .. nextId + Len(records) - 1)
                           ELSE supplied
    /\ UNCHANGED <<lboVars, procs>>

\* upload_complete on a session whose assembled file parses to df; the
\* files of the session are not looked at.
upload_complete_parsed(df) ==
    /\ upload_complete_frame("", df)
    /\ UNCHANGED uploads

----------------------------------------------------------------------------
(* The chunked upload: upload_init, upload_chunk and the whole of          *)
(* upload_complete.  The bytes of a chunk are a sequence of CSV lines, a   *)
(* line being its cells; file names are sequences of character codes.      *)

\* The decimal digits of n >= 0, as character codes.
RECURSIVE Digits(_)
Digits(n) == IF n < 10 THEN <<48 + n>> ELSE Digits(n \div 10) \o <<48 + (n % 10)>>

ZeroPad(d, w) ==
    IF Len(d) >= w THEN d ELSE [i \in 1 .. w - Len(d) |-> 48] \o d

\* f"part_{index:06d}" without the prefix that all part names share: the
\* sign, if any, counts in the width of 6.
part_name(index) ==
    IF index < 0 THEN <<45>> \o ZeroPad(Digits(-index), 5)
    ELSE ZeroPad(Digits(index), 6)

\* The order of file names: by the first character that differs, a proper
\* prefix first.
NameLess(a, b) ==
    \/ \E k \in 1 .. Len(a) :
          /\ k <= Len(b)
          /\ \A j \in 1 .. k - 1 : a[j] = b[j]
          /\ a[k] < b[k]
    \/ /\ Len(a) < Len(b)
       /\ \A j \in 1 .. Len(a) : a[j] = b[j]

\* sorted(folder.glob('part_*'))
sorted_parts(folder) ==
    LET names == DOMAIN folder.parts
    IN  [k \in 1 .. Cardinality(names) |->
            CHOOSE n \in names :
               Cardinality({m \in names : NameLess(m, n)}) = k - 1]

\* The loop of lines 400-403: the files copied one after another.
RECURSIVE concatenate(_, _)
concatenate(folder, names) ==
    IF names = <<>> THEN <<>>
    ELSE folder.parts[names[1]]
         \o concatenate(folder, SubSeq(names, 2, Len(names)))

\* pd.read_csv on a file that has a first line: the first line gives the
\* column names, every further line is a row.  The lines used here all
\* have as many cells as the first one, and no name twice.
read_csv(bytes) ==
    LET columns == [i \in 1 .. Len(bytes[1]) |-> PyStr(bytes[1][i])]
    IN  [columns |-> columns,
         rows    |-> [k \in 1 .. Len(bytes) - 1 |->
                         [c \in {columns[i] : i \in 1 .. Len(columns)} |->
                             bytes[k + 1][CHOOSE i \in 1 .. Len(columns) :
                                             columns[i] = c]]]]

\* The ids uuid4 gives to upload sessions, in the order it gives them.
SessionNames == <<"u1", "u2">>

Detail(text) == <<[detail |-> text]>>

upload_init ==
    /\ Cardinality(DOMAIN uploads) - 1 < Len(SessionNames)
    /\ LET upload_id == SessionNames[Cardinality(DOMAIN uploads)]
       IN  /\ uploads' = (upload_id :> EmptyFolder) @@ uploads
           /\ last' = Outcome("upload_init", "200", upload_id, <<>>,
                              <<[upload_id |-> upload_id]>>, deals)
    /\ clock' = clock + 1
    /\ UNCHANGED <<deals, nextId, supplied>>
    /\ UNCHANGED <<lboVars, procs>>

upload_chunk(upload_id, index, bytes) ==
    /\ IF upload_id \notin DOMAIN uploads
       THEN /\ last' = Outcome("upload_chunk", "400", upload_id,
                               [index |-> index, bytes |-> bytes],
                               Detail("Invalid upload_id"), deals)
            /\ UNCHANGED uploads
       ELSE /\ uploads' =
                 [uploads EXCEPT ![upload_id].parts =
                     (part_name(index) :> bytes) @@ @]
            /\ last' = Outcome("upload_chunk", "200", upload_id,
                               [index |-> index, bytes |-> bytes],
                               <<[status |-> "ok", index |-> index]>>, deals)
    /\ clock' = clock + 1
    /\ UNCHANGED <<deals, nextId, supplied>>
    /\ UNCHANGED <<lboVars, procs>>

upload_complete(upload_id) ==
    IF upload_id \notin DOMAIN uploads
    THEN /\ last' = Outcome("upload_complete", "400", upload_id, <<>>,
                            Detail("Invalid upload_id"), deals)
         /\ clock' = clock + 1
         /\ UNCHANGED <<deals, nextId, supplied, uploads>>
         /\ UNCHANGED <<lboVars, procs>>
    ELSE LET folder == uploads[upload_id]
             parts  == sorted_parts(folder)
             bytes  == concatenate(folder, parts)
         IN  IF parts = <<>>
             THEN /\ last' = Outcome("upload_complete", "400", upload_id, <<>>,
                                     Detail("No parts uploaded"), deals)
                  /\ clock' = clock + 1
                  /\ UNCHANGED <<deals, nextId, supplied, uploads>>
                  /\ UNCHANGED <<lboVars, procs>>
             ELSE /\ uploads' = [uploads EXCEPT ![upload_id].assembled = bytes]
                  /\ IF bytes = <<>>
                     THEN \* EmptyDataError of read_csv
                          /\ last' = Outcome("upload_complete", "400", upload_id,
                                             <<>>, Detail("CSV parse failed"),
                                             deals)
                          /\ clock' = clock + 1
                          /\ UNCHANGED <<deals, nextId, supplied>>
                          /\ UNCHANGED <<lboVars, procs>>
                     ELSE upload_complete_frame(upload_id, read_csv(bytes))

----------------------------------------------------------------------------
(* The requests the deal handlers are run on.                              *)

BasePayload ==
    [name |-> "Acme", sector |-> "Technology", subsector |-> NoneS,
     geography |-> "US", revenue |-> QInt(100), ebitda |-> QInt(20),
     ebitda_margin |-> Q(1, 5), ev |-> QInt(150), ev_ebitda |-> NoneQ,
     growth_rate |-> Q(1, 10), net_debt |-> Zero, deal_stage |-> "sourced",
     source |-> "test"]

\* DealCreate bodies: ev_ebitda absent, 0.0 and given; ebitda zero or not.
CreatePayloads ==
    {[BasePayload EXCEPT !.ebitda = e, !.ev_ebitda = m] :
        e \in {QInt(20), Zero}, m \in {NoneQ, Zero, QInt(9)}}

NoUpdate ==
    [name |-> NoneS, sector |-> NoneS, subsector |-> NoneS, geography |-> NoneS,
     revenue |-> NoneQ, ebitda |-> NoneQ, ebitda_margin |-> NoneQ, ev |-> NoneQ,
     ev_ebitda |-> NoneQ, growth_rate |-> NoneQ, net_debt |-> NoneQ,
     deal_stage |-> NoneS, source |-> NoneS]

\* DealUpdate bodies.
UpdatePayloads ==
    { NoUpdate,
      [NoUpdate EXCEPT !.ev = QInt(300)],
      [NoUpdate EXCEPT !.ebitda = QInt(35)],
      [NoUpdate EXCEPT !.ebitda = Zero],
      [NoUpdate EXCEPT !.ev = QInt(300), !.ebitda = QInt(35)],
      [NoUpdate EXCEPT !.ev_ebitda = QInt(7)],
      [NoUpdate EXCEPT !.ev = Zero, !.ev_ebitda = QInt(7)],
      [NoUpdate EXCEPT !.revenue = QInt(120), !.sector = "Healthcare"] }

\* Parsed CSV files.
Frames ==
    { [columns |-> <<"name", "sector", "geography", "revenue", "ebitda", "ev">>,
       rows |-> << [name |-> Str("A"), sector |-> Str("Technology"),
                    geography |-> Str("US"), revenue |-> Num(QInt(100)),
                    ebitda |-> Num(QInt(30)), ev |-> Num(QInt(200))],
                   [name |-> Str("B"), sector |-> Str("Technology"),
                    geography |-> Str("US"), revenue |-> Str("abc"),
                    ebitda |-> Num(QInt(30)), ev |-> Num(QInt(200))],
                   [name |-> Str("C"), sector |-> Str("Healthcare"),
                    geography |-> Str("EU"), revenue |-> Num(Zero),
                    ebitda |-> Num(Zero), ev |-> Num(QInt(50))],
                   [name |-> Str("D"), sector |-> Str("Healthcare"),
                    geography |-> Str("EU"), revenue |-> Num(QInt(40)),
                    ebitda |-> Num(QInt(10)), ev |-> Num(QInt(90))] >>],
      [columns |-> <<"Company", "Sector", "Geo", "LTM_Revenue", "EBITDA">>,
       rows |-> << ("Company" :> Str("D")) @@ ("Sector" :> Str("Industrials"))
                   @@ ("Geo" :> Str("US")) @@ ("LTM_Revenue" :> Num(QInt(80)))
                   @@ ("EBITDA" :> Num(QInt(-5))) >>],
      [columns |-> <<"name", "sector", "geography", "revenue", "ebitda", "Multiple">>,
       rows |-> << ("name" :> Str("E")) @@ ("sector" :> Str("Technology"))
                   @@ ("geography" :> Str("US")) @@ ("revenue" :> Num(QInt(60)))
                   @@ ("ebitda" :> Num(QInt(10))) @@ ("Multiple" :> Num(QInt(6))) >>],
      [columns |-> <<"Company", "Geo", "LTM_Revenue", "EBITDA">>,
       rows |-> << ("Company" :> Str("G")) @@ ("Geo" :> Str("US"))
                   @@ ("LTM_Revenue" :> Num(QInt(80)))
                   @@ ("EBITDA" :> Num(QInt(8))) >>],
      [columns |-> <<"name", "sector", "geography", "revenue">>,
       rows |-> << [name |-> Str("F"), sector |-> Str("Technology"),
                    geography |-> Str("US"), revenue |-> Num(QInt(100))] >>] }

LboIdle ==
    /\ req = <<>>
    /\ pc = "idle"
    /\ y = 0
    /\ revenue = Zero /\ ebitda = Zero /\ debt = Zero
    /\ entry_ev = Zero /\ equity = Zero
    /\ interest = Zero /\ capex = Zero /\ nwc_change = Zero
    /\ tax = Zero /\ fcf = Zero
    /\ yearly = <<>>
    /\ exit_ev = Zero /\ equity_exit = Zero /\ moic = Zero
    /\ resp = <<>>
    /\ error = ""

DealInit ==
    /\ LboIdle
    /\ uploads = NoUploads
    /\ procs = <<>>
    /\ deals = <<>>
    /\ clock = 0
    /\ nextId = 1
    /\ last = NoOutcome
    /\ supplied = {}

\* The ids a request may name: every id handed out, and one never stored.
Ids == 1 .. nextId

\* The number of requests that write, which is also what the clock reads.
MaxClock == 3

DealNext ==
    \/ \E p \in CreatePayloads : clock < MaxClock /\ create_deal(p)
    \/ \E id \in Ids, p \in UpdatePayloads : clock < MaxClock /\ update_deal(id, p)
    \/ \E id \in Ids : clock < MaxClock /\ delete_deal(id)
    \/ \E df \in Frames : clock < MaxClock /\ upload_complete_parsed(df)
    \/ clock < MaxClock /\ seed_demo

SpecDeals == DealInit /\ [][DealNext]_vars

MaxLimit == 2

\* The number of writing requests before and between the reads.
MaxScreenOps == 2

\* DealCreate bodies for the screener: two sectors in one geography,
\* revenues 100 and 200, multiples 7.5 and 8.76, scores 17.71 and 14.2
\* (the score of the first seed document); a body sent twice gives two
\* deals of equal score.
ScreenPayloads ==
    { BasePayload,
      [BasePayload EXCEPT !.name = "Beta", !.sector = "Healthcare",
                          !.revenue = QInt(200),
                          !.ebitda = QInt(50), !.ebitda_margin = Q(1, 4),
                          !.ev = QInt(438), !.growth_rate = Zero] }

NoFilter ==
    [sector |-> NoneS, geography |-> NoneS, ev_ebitda_min |-> NoneQ,
     ev_ebitda_max |-> NoneQ, revenue_min |-> NoneQ, revenue_max |-> NoneQ]

\* The filters of list_deals and screener: each filter alone, the ranges,
\* and combinations; "" is an empty query parameter.  The bounds are
\* values that stored deals have exactly.
Filters ==
    { NoFilter,
      [NoFilter EXCEPT !.sector = ""],
      [NoFilter EXCEPT !.sector = "Technology"],
      [NoFilter EXCEPT !.geography = "US"],
      [NoFilter EXCEPT !.sector = "Healthcare", !.geography = "US"],
      [NoFilter EXCEPT !.revenue_min = QInt(100)],
      [NoFilter EXCEPT !.revenue_max = QInt(200)],
      [NoFilter EXCEPT !.revenue_min = QInt(120), !.revenue_max = QInt(200)],
      [NoFilter EXCEPT !.ev_ebitda_min = Q(15, 2)],
      [NoFilter EXCEPT !.ev_ebitda_max = QInt(8)],
      [NoFilter EXCEPT !.ev_ebitda_min = QInt(5), !.ev_ebitda_max = Q(15, 2)],
      [NoFilter EXCEPT !.sector = "Healthcare", !.geography = "US",
                       !.revenue_min = QInt(100), !.revenue_max = QInt(250),
                       !.ev_ebitda_max = QInt(9)] }

ScreenNext ==
    \/ \E p \in ScreenPayloads : clock < MaxScreenOps /\ create_deal(p)
    \/ clock < MaxScreenOps /\ seed_demo
    \/ \E id \in Ids : clock < MaxScreenOps /\ delete_deal(id)
    \/ \E f \in Filters, limit \in 1 .. MaxLimit : list_deals(f, limit)
    \/ \E f \in Filters : screener(f)

SpecScreen == DealInit /\ [][ScreenNext]_vars

\* A CSV file of as many well-formed rows as the default limit of
\* list_deals.
BulkFrame ==
    [columns |-> <<"name", "sector", "geography", "revenue", "ebitda">>,
     rows |-> [i \in 1 .. DefaultLimit |->
                  [name |-> Str("Bulk"), sector |-> Str("Industrials"),
                   geography |-> Str("US"), revenue |-> Num(QInt(100)),
                   ebitda |-> Num(QInt(10))]]]

\* The ids of the stored deals that create_deal made: its payloads alone
\* have the source "test".
CreatedIds ==
    {deals[i]["_id"] : i \in {j \in 1 .. Len(deals) : deals[j].source = "test"}}

\* The writes before and between the reads of SpecReadWrite.
MaxRWOps == 3

\* Creation, bulk ingestion, seeding and deletion (of the first id, of a
\* created deal, or of an id never handed out), read back by list_deals
\* with no filter and the default limit.
ReadWriteNext ==
    \/ clock < MaxRWOps /\ create_deal(BasePayload)
    \/ clock < MaxRWOps /\ upload_complete_parsed(BulkFrame)
    \/ clock < MaxRWOps /\ seed_demo
    \/ \E id \in {1, nextId} \cup CreatedIds : clock < MaxRWOps /\ delete_deal(id)
    \/ list_deals(NoFilter, DefaultLimit)

SpecReadWrite == DealInit /\ [][ReadWriteNext]_vars

\* The lines of the uploaded files: a header and a row that coerces.
HeaderLine ==
    <<Str("name"), Str("sector"), Str("geography"), Str("revenue"),
      Str("ebitda")>>
RowLine ==
    <<Str("Gamma"), Str("Technology"), Str("US"), Num(QInt(100)),
      Num(QInt(20))>>

\* The bytes of a chunk: nothing, the header line, a row.
ChunkBytes == { <<>>, <<HeaderLine>>, <<RowLine>> }

\* The index of a chunk: any int the form carries.
ChunkIndexes == {-2, -1, 0, 1}

\* The upload_id of a request: the sessions' ids, handed out or not yet,
\* and "." for UPLOAD_ROOT.
UploadIds == {SessionNames[k] : k \in 1 .. Len(SessionNames)} \cup {"."}

\* The number of upload requests.
MaxUploadOps == 4

UploadNext ==
    \/ clock < MaxUploadOps /\ upload_init
    \/ \E upload_id \in UploadIds, index \in ChunkIndexes, bytes \in ChunkBytes :
          clock < MaxUploadOps /\ upload_chunk(upload_id, index, bytes)
    \/ \E upload_id \in UploadIds :
          clock < MaxUploadOps /\ upload_complete(upload_id)

SpecUpload == DealInit /\ [][UploadNext]_vars

----------------------------------------------------------------------------
(* Requests served concurrently.  A request is a coroutine that yields at  *)
(* every await, so the storage calls of update_deal (find_one, then        *)
(* find_one_and_update, then find_one) and the one of delete_deal are the  *)
(* steps, and the steps of different requests interleave freely.           *)

\* A request accepted by the server: position, locals, answer; base is the
\* collection when it was accepted (kept for the claims).
Request(op, id, p, at) ==
    [op |-> op, id |-> id, p |-> p, pc |-> at, updates |-> <<>>,
     status |-> "", out |-> <<>>, base |-> deals]

\* Lines 246-247: the payload is read and the path chosen.
StartUpdate(id, p) ==
    /\ procs' = Append(procs,
                       [Request("update", id, p,
                                IF RecomputeNeeded(Updates(p))
                                THEN "find" ELSE "write")
                          EXCEPT !.updates = Updates(p)])
    /\ UNCHANGED <<dealVars, uploads>>
    /\ UNCHANGED lboVars

StartDelete(id) ==
    /\ procs' = Append(procs, Request("delete", id, <<>>, "delete"))
    /\ UNCHANGED <<dealVars, uploads>>
    /\ UNCHANGED lboVars

\* Lines 249-254: the lookup and the recomputed multiple.
UpdateFind(k) ==
    /\ procs[k].pc = "find"
    /\ LET r == procs[k]
           i == find_one(deals, r.id)
       IN  procs' =
              IF i = 0
              THEN [procs EXCEPT ![k].pc = "done", ![k].status = "404"]
              ELSE [procs EXCEPT
                      ![k].pc = "write",
                      ![k].updates =
                          ("ev_ebitda" :>
                              compute_ev_ebitda(EffectiveEv(r.updates, deals[i]),
                                                EffectiveEbitda(r.updates, deals[i])))
                          @@ r.updates]
    /\ UNCHANGED <<dealVars, uploads>>
    /\ UNCHANGED lboVars

\* Lines 255-258: the write.
UpdateWrite(k) ==
    /\ procs[k].pc = "write"
    /\ clock' = clock + 1
    /\ LET r == procs[k]
           i == find_one(deals, r.id)
       IN  IF i = 0
           THEN /\ procs' = [procs EXCEPT ![k].pc = "done", ![k].status = "404"]
                /\ UNCHANGED <<deals, supplied>>
           ELSE /\ deals' = set_fields(deals, i,
                                       ("updated_at" :> clock') @@ r.updates)
                /\ procs' = [procs EXCEPT ![k].pc = "read"]
                /\ supplied' =
                      IF RecomputeNeeded(Updates(r.p)) THEN supplied \ {r.id}
                      ELSE IF "ev_ebitda" \in DOMAIN r.updates
                      THEN supplied \cup {r.id}
                      ELSE supplied
    /\ UNCHANGED <<nextId, last, uploads>>
    /\ UNCHANGED lboVars

\* Lines 259-260: the final read.  When the document is gone, find_one
\* gives None, serialize_deal(None) gives {} and DealOut(**{}) raises,
\* which the server answers with 500.
UpdateRead(k) ==
    /\ procs[k].pc = "read"
    /\ LET i == find_one(deals, procs[k].id)
       IN  procs' =
              IF i = 0
              THEN [procs EXCEPT ![k].pc = "done", ![k].status = "500"]
              ELSE [procs EXCEPT ![k].pc = "done", ![k].status = "200",
                                 ![k].out = <<serialize_deal(deals[i])>>]
    /\ UNCHANGED <<dealVars, uploads>>
    /\ UNCHANGED lboVars

\* Lines 265-268.
DeleteStep(k) ==
    /\ procs[k].pc = "delete"
    /\ IF find_one(deals, procs[k].id) = 0
       THEN /\ procs' = [procs EXCEPT ![k].pc = "done", ![k].status = "404"]
            /\ UNCHANGED <<deals, supplied>>
       ELSE /\ deals' = delete_one(deals, procs[k].id)
            /\ procs' = [procs EXCEPT ![k].pc = "done", ![k].status = "200"]
            /\ supplied' = supplied \ {procs[k].id}
    /\ UNCHANGED <<clock, nextId, last, uploads>>
    /\ UNCHANGED lboVars

\* The requests in flight at once.
MaxProcs == 2

\* DealUpdate bodies of the concurrent requests: ev alone, ebitda alone,
\* and one that needs no lookup.
ConcurrentPayloads ==
    { [NoUpdate EXCEPT !.ev = QInt(300)],
      [NoUpdate EXCEPT !.ebitda = QInt(35)],
      [NoUpdate EXCEPT !.revenue = QInt(120)] }

\* One deal is created, then requests on its id and on an id that is not
\* stored are accepted and served step by step.
ConcurrentNext ==
    \/ deals = <<>> /\ procs = <<>> /\ clock = 0 /\ create_deal(BasePayload)
    \/ \E id \in Ids, p \in ConcurrentPayloads :
          deals # <<>> /\ Len(procs) < MaxProcs /\ StartUpdate(id, p)
    \/ \E id \in Ids : deals # <<>> /\ Len(procs) < MaxProcs /\ StartDelete(id)
    \/ \E k \in 1 .. Len(procs) : UpdateFind(k)
    \/ \E k \in 1 .. Len(procs) : UpdateWrite(k)
    \/ \E k \in 1 .. Len(procs) : UpdateRead(k)
    \/ \E k \in 1 .. Len(procs) : DeleteStep(k)

SpecConcurrent == DealInit /\ [][ConcurrentNext]_vars

----------------------------------------------------------------------------
(* lbo_quick.  One action per step of the handler: the entry block with    *)
(* its validation, one iteration of the year loop, and the exit block.     *)

MaxYears == 3

\* The requests the handler is run on.  LBORequest constrains no field:
\* any float, and any int for years, is accepted.  The rates are binary
\* fractions, which keeps the exact values small.
LBORequests ==
    [ entry_ebitda              : {QInt(50), QInt(-10)},
      entry_ev_ebitda           : {QInt(10), QInt(2)},
      revenue_growth            : {Q(1, 4), Zero},
      ebitda_margin             : {Q(1, 4)},
      capex_pct_of_revenue      : {Q(1, 32), Q(1, 2)},
      nwc_pct_change_of_revenue : {Q(1, 32)},
      interest_rate             : {Q(1, 8)},
      leverage_multiple         : {Q(1, 2), QInt(4), QInt(10), QInt(20)},
      exit_ev_ebitda            : {QInt(10), QInt(1), Zero},
      years                     : -1 .. MaxYears,
      tax_rate                  : {Q(1, 4)} ]

\* entry_ev, debt and equity of the entry block.
EntryValues(r) ==
    LET ev == QMul(r.entry_ebitda, r.entry_ev_ebitda)
        d  == QMul(r.leverage_multiple, r.entry_ebitda)
    IN  [entry_ev |-> ev, debt |-> d, equity |-> QSub(ev, d)]

\* if equity <= 0: raise HTTPException(400)
EquityRejectedStrict(eq) == QLt(eq, Zero)
EquityRejected(eq) == QLe(eq, Zero)

\* revenue = req.entry_ebitda / max(margin, 1e-6)
StartRevenue(r) == QDiv(r.entry_ebitda, QMax(r.ebitda_margin, Q(1, 1000000)))

\* debt = max(debt - max(fcf, 0), 0)
SweepAllFcf(d, f) == QMax(QSub(d, f), Zero)
Sweep(d, f) == QMax(QSub(d, QMax(f, Zero)), Zero)

\* The body of the year loop on the locals revenue and debt.
YearBodyInterestAfterPaydown(r, rev, dbt) ==
    LET revenue1 == QMul(rev, QAdd(One, r.revenue_growth))
        ebitda1  == QMul(revenue1, r.ebitda_margin)
        capex1   == QMul(revenue1, r.capex_pct_of_revenue)
        nwc1     == QMul(revenue1, r.nwc_pct_change_of_revenue)
        pre      == QSub(QSub(ebitda1, capex1), nwc1)
        paid     == Sweep(dbt, pre)
        interest1 == QMul(paid, r.interest_rate)
        tax1     == QMul(QMax(QSub(ebitda1, interest1), Zero), r.tax_rate)
        fcf1     == QSub(QSub(pre, interest1), tax1)
    IN  [revenue |-> revenue1, ebitda |-> ebitda1, interest |-> interest1,
         capex |-> capex1, nwc_change |-> nwc1, tax |-> tax1, fcf |-> fcf1,
         debt |-> Sweep(dbt, fcf1)]
YearBody(r, rev, dbt) ==
    LET revenue1  == QMul(rev, QAdd(One, r.revenue_growth))
        ebitda1   == QMul(revenue1, r.ebitda_margin)
        interest1 == QMul(dbt, r.interest_rate)
        capex1    == QMul(revenue1, r.capex_pct_of_revenue)
        nwc1      == QMul(revenue1, r.nwc_pct_change_of_revenue)
        tax1      == QMul(QMax(QSub(ebitda1, interest1), Zero), r.tax_rate)
        fcf1      == QSub(QSub(QSub(QSub(ebitda1, capex1), nwc1), interest1), tax1)
    IN  [revenue |-> revenue1, ebitda |-> ebitda1, interest |-> interest1,
         capex |-> capex1, nwc_change |-> nwc1, tax |-> tax1, fcf |-> fcf1,
         debt |-> Sweep(dbt, fcf1)]

\* The dict appended to yearly.
YearRecord(yr, b) ==
    [year |-> yr, revenue |-> Round2(b.revenue), ebitda |-> Round2(b.ebitda),
     interest |-> Round2(b.interest), capex |-> Round2(b.capex),
     nwc_change |-> Round2(b.nwc_change), tax |-> Round2(b.tax),
     fcf |-> Round2(b.fcf), debt_end |-> Round2(b.debt)]

\* exit_ev, equity_exit and moic of the exit block (equity > 0 here).
ExitValuesEntryEbitda(r, ebt, dbt, eq) ==
    LET xev == QMul(r.entry_ebitda, r.exit_ev_ebitda)
    IN  [exit_ev |-> xev, equity_exit |-> QSub(xev, dbt),
         moic |-> QDiv(QSub(xev, dbt), eq)]
ExitValues(r, ebt, dbt, eq) ==
    LET xev == QMul(ebt, r.exit_ev_ebitda)
    IN  [exit_ev |-> xev, equity_exit |-> QSub(xev, dbt),
         moic |-> QDiv(QSub(xev, dbt), eq)]

\* What irr = (moic ** (1 / years)) - 1 followed by round(irr, 4) does:
\* 1 / 0 and 0.0 ** negative raise ZeroDivisionError; a negative float to
\* a non-integral power is a complex number, which round() refuses with a
\* TypeError; anything else is a float.
IrrOutcome(m, n) ==
    IF n = 0 THEN "ZeroDivisionError"
    ELSE IF m = Zero /\ n < 0 THEN "ZeroDivisionError"
    ELSE IF QLt(m, Zero) /\ n \notin {1, -1} THEN "TypeError"
    ELSE "float"

\* round(irr, 4), kept symbolic: the n-th root is not rational.
Irr(m, n) == [root_of |-> m, years |-> n]

\* The deal store is not touched by lbo_quick.
DealIdle ==
    /\ uploads = NoUploads
    /\ procs = <<>>
    /\ deals = <<>>
    /\ clock = 0
    /\ nextId = 1
    /\ last = NoOutcome
    /\ supplied = {}

LboInit ==
    /\ DealIdle
    /\ req \in LBORequests
    /\ pc = "start"
    /\ y = 0
    /\ revenue = Zero /\ ebitda = Zero /\ debt = Zero
    /\ entry_ev = Zero /\ equity = Zero
    /\ interest = Zero /\ capex = Zero /\ nwc_change = Zero
    /\ tax = Zero /\ fcf = Zero
    /\ yearly = <<>>
    /\ exit_ev = Zero /\ equity_exit = Zero /\ moic = Zero
    /\ resp = <<>>
    /\ error = ""

\* Lines 309-323: the entry values, the validation, the starting locals.
LboEntry ==
    /\ pc = "start"
    /\ LET e == EntryValues(req) IN
        /\ entry_ev' = e.entry_ev
        /\ debt' = e.debt
        /\ equity' = e.equity
        /\ IF EquityRejected(e.equity)
           THEN /\ pc' = "rejected"
                /\ error' = "400 Equity must be positive; adjust leverage or entry multiple"
                /\ UNCHANGED <<y, revenue, ebitda, yearly>>
           ELSE /\ pc' = "loop"
                /\ revenue' = StartRevenue(req)
                /\ ebitda' = req.entry_ebitda
                /\ yearly' = <<>>
                /\ y' = 1
                /\ UNCHANGED error
    /\ UNCHANGED <<req, interest, capex, nwc_change, tax, fcf,
                   exit_ev, equity_exit, moic, resp>>
    /\ UNCHANGED <<dealVars, uploads, procs>>

\* Lines 324-345: one iteration of for y in range(1, years + 1).
LboYear ==
    /\ pc = "loop"
    /\ y <= req.years
    /\ LET b == YearBody(req, revenue, debt) IN
        /\ revenue' = b.revenue
        /\ ebitda' = b.ebitda
        /\ interest' = b.interest
        /\ capex' = b.capex
        /\ nwc_change' = b.nwc_change
        /\ tax' = b.tax
        /\ fcf' = b.fcf
        /\ debt' = b.debt
        /\ yearly' = Append(yearly, YearRecord(y, b))
    /\ y' = y + 1
    /\ UNCHANGED <<req, pc, entry_ev, equity, exit_ev, equity_exit, moic,
                   resp, error>>
    /\ UNCHANGED <<dealVars, uploads, procs>>

\* Lines 347-363: the exit values, irr and the response.
LboExit ==
    /\ pc = "loop"
    /\ y > req.years
    /\ LET x == ExitValues(req, ebitda, debt, equity)
           o == IrrOutcome(x.moic, req.years)
       IN
        /\ exit_ev' = x.exit_ev
        /\ equity_exit' = x.equity_exit
        /\ moic' = x.moic
        /\ IF o = "float"
           THEN /\ pc' = "done"
                /\ resp' = <<[entry_ev |-> Round2(entry_ev),
                              entry_debt |-> Round2(QMul(req.leverage_multiple,
                                                         req.entry_ebitda)),
                              entry_equity |-> Round2(equity),
                              exit_ev |-> Round2(x.exit_ev),
                              exit_debt |-> Round2(debt),
                              equity_value_at_exit |-> Round2(x.equity_exit),
                              moic |-> Round2(x.moic),
                              irr |-> Irr(x.moic, req.years),
                              yearly |-> yearly]>>
                /\ UNCHANGED error
           ELSE /\ pc' = "fault"
                /\ error' = o
                /\ UNCHANGED resp
    /\ UNCHANGED <<req, y, revenue, ebitda, debt, entry_ev, equity,
                   interest, capex, nwc_change, tax, fcf, yearly>>
    /\ UNCHANGED <<dealVars, uploads, procs>>

LboNext == LboEntry \/ LboYear \/ LboExit

SpecLBO == LboInit /\ [][LboNext]_vars

----------------------------------------------------------------------------
(* The LBO claims.  The Claim... operators restate the formulas of the     *)
(* specification; the handler's locals are compared with them.             *)

ClaimEntryEv(r) == QMul(r.entry_ebitda, r.entry_ev_ebitda)
ClaimEntryDebt(r) == QMul(r.leverage_multiple, r.entry_ebitda)
ClaimEntryEquity(r) == QSub(ClaimEntryEv(r), ClaimEntryDebt(r))

\* revenue_k, ebitda_k, ..., debt_k of the recurrence, unrounded; year 0
\* holds revenue0 and debt0.
RECURSIVE ClaimYear(_, _)
ClaimYear(r, k) ==
    IF k = 0
    THEN [revenue |-> QDiv(r.entry_ebitda, QMax(r.ebitda_margin, Q(1, 1000000))),
          ebitda |-> r.entry_ebitda, interest |-> Zero, capex |-> Zero,
          nwc_change |-> Zero, tax |-> Zero, fcf |-> Zero,
          debt |-> ClaimEntryDebt(r)]
    ELSE LET p   == ClaimYear(r, k - 1)
             rev == QMul(p.revenue, QAdd(One, r.revenue_growth))
             ebt == QMul(rev, r.ebitda_margin)
             int == QMul(r.interest_rate, p.debt)
             cpx == QMul(rev, r.capex_pct_of_revenue)
             nwc == QMul(rev, r.nwc_pct_change_of_revenue)
             txb == QSub(ebt, int)
             tx  == QMul(IF QLt(Zero, txb) THEN txb ELSE Zero, r.tax_rate)
             f   == QSub(ebt, QAdd(QAdd(cpx, nwc), QAdd(int, tx)))
             pay == IF QLt(Zero, f) THEN f ELSE Zero
             d   == IF QLt(QSub(p.debt, pay), Zero) THEN Zero ELSE QSub(p.debt, pay)
         IN  [revenue |-> rev, ebitda |-> ebt, interest |-> int, capex |-> cpx,
              nwc_change |-> nwc, tax |-> tx, fcf |-> f, debt |-> d]

Example50(lev) ==
    /\ req.entry_ebitda = QInt(50)
    /\ req.entry_ev_ebitda = QInt(10)
    /\ req.leverage_multiple = QInt(lev)

\* C1: lbo_quick rejects the request with "equity must be positive" if
\* and only if entry_ebitda * entry_ev_ebitda - leverage_multiple *
\* entry_ebitda <= 0, and it does so before any year is simulated (no
\* yearly record, no response); a response reports entry_ev, entry_debt
\* and entry_equity = entry_ev - entry_debt > 0, each rounded to 2
\* decimals (50, 10, 4 gives 500, 200, 300; leverage 20 is rejected).
C1_EquityValidation ==
    /\ pc # "start" =>
          (pc = "rejected" <=> QLe(ClaimEntryEquity(req), Zero))
    /\ pc = "rejected" =>
          /\ yearly = <<>>
          /\ resp = <<>>
          /\ y = 0
          /\ error = "400 Equity must be positive; adjust leverage or entry multiple"
    /\ pc = "done" =>
          /\ resp[1].entry_ev = Round2(ClaimEntryEv(req))
          /\ resp[1].entry_debt = Round2(ClaimEntryDebt(req))
          /\ resp[1].entry_equity = Round2(ClaimEntryEquity(req))
          /\ QLt(Zero, ClaimEntryEquity(req))
    /\ (pc = "done" /\ Example50(4)) =>
          /\ resp[1].entry_ev = QInt(500)
          /\ resp[1].entry_debt = QInt(200)
          /\ resp[1].entry_equity = QInt(300)
    /\ (pc # "start" /\ Example50(20)) => pc = "rejected"

\* A request of exactly zero equity has been rejected.
C1_WitnessRejectedAtZero == pc = "rejected" /\ ClaimEntryEquity(req) = Zero

\* C2: for an accepted request with years = n >= 1 the schedule has
\* exactly n records, numbered 1..n in order, and record k holds the
\* values of the recurrence (interest on the balance at the end of year
\* k-1), computed unrounded and rounded to 2 decimals when recorded.
C2_YearlyRecurrence ==
    pc \in {"loop", "done", "fault"} =>
      /\ Len(yearly) = y - 1
      /\ \A k \in 1 .. Len(yearly) :
            LET c == ClaimYear(req, k) IN
            yearly[k] = [year |-> k, revenue |-> Round2(c.revenue),
                         ebitda |-> Round2(c.ebitda),
                         interest |-> Round2(c.interest),
                         capex |-> Round2(c.capex),
                         nwc_change |-> Round2(c.nwc_change),
                         tax |-> Round2(c.tax), fcf |-> Round2(c.fcf),
                         debt_end |-> Round2(c.debt)]
      /\ Len(yearly) >= 1 =>
            LET c == ClaimYear(req, Len(yearly)) IN
            /\ revenue = c.revenue /\ ebitda = c.ebitda
            /\ interest = c.interest /\ capex = c.capex
            /\ nwc_change = c.nwc_change /\ tax = c.tax
            /\ fcf = c.fcf /\ debt = c.debt
      /\ (pc \in {"done", "fault"} /\ req.years >= 1) =>
            Len(yearly) = req.years
      /\ pc = "done" => resp[1].yearly = yearly

\* A schedule of three years has been returned in which the debt was
\* paid down, so that the interest of a later year differs from the
\* interest on the entry debt.
C2_Witness ==
    /\ pc = "done"
    /\ Len(resp[1].yearly) = 3
    /\ resp[1].yearly[3].interest # resp[1].yearly[1].interest
    /\ resp[1].yearly[3].revenue # resp[1].yearly[1].revenue

\* The balance a year starts from, as the response shows it.
DebtBefore(k) ==
    IF k = 1 THEN Round2(ClaimEntryDebt(req)) ELSE yearly[k - 1].debt_end

\* C3 as claimed: debt_end is never negative and never above the balance
\* at the end of the year before (entry_debt for year 1).
C3_DebtNeverIncreases ==
    \A k \in 1 .. Len(yearly) :
        /\ QLe(Zero, yearly[k].debt_end)
        /\ QLe(yearly[k].debt_end, DebtBefore(k))

\* C3 as amended: debt_end is never negative and never above
\* max(previous balance, 0); so from an entry_debt >= 0 the balance never
\* increases, and a year of negative free cash flow leaves it unchanged.
C3_DebtBoundedByPrevious ==
    \A k \in 1 .. Len(yearly) :
        /\ QLe(Zero, yearly[k].debt_end)
        /\ QLe(yearly[k].debt_end, QMax(DebtBefore(k), Zero))
        /\ QLe(Zero, ClaimEntryDebt(req)) =>
              /\ QLe(yearly[k].debt_end, DebtBefore(k))
              /\ QLt(yearly[k].fcf, Zero) => yearly[k].debt_end = DebtBefore(k)

\* Two years of negative free cash flow on a positive balance.
C3_Witness ==
    /\ Len(yearly) >= 2
    /\ QLt(Zero, ClaimEntryDebt(req))
    /\ QLt(yearly[1].fcf, Zero)
    /\ QLt(yearly[2].fcf, Zero)
    /\ yearly[2].debt_end = Round2(ClaimEntryDebt(req))

\* A schedule in which a positive balance was paid down to zero.
C3_WitnessPaidOff ==
    /\ Len(yearly) >= 2
    /\ QLt(Zero, yearly[1].debt_end)
    /\ yearly[2].debt_end = Zero

\* C4: with years >= 1, exit_ev is the last simulated year's EBITDA times
\* exit_ev_ebitda, exit_debt the balance after the last paydown,
\* equity_value_at_exit their difference and moic that over entry_equity,
\* all unrounded; the response shows them rounded to 2 decimals.
C4_ExitValues ==
    (pc \in {"done", "fault"} /\ req.years >= 1) =>
      LET c == ClaimYear(req, req.years) IN
      /\ exit_ev = QMul(c.ebitda, req.exit_ev_ebitda)
      /\ debt = c.debt
      /\ equity_exit = QSub(exit_ev, c.debt)
      /\ moic = QDiv(equity_exit, ClaimEntryEquity(req))
      /\ pc = "done" =>
            /\ resp[1].exit_ev = Round2(exit_ev)
            /\ resp[1].exit_debt = Round2(c.debt)
            /\ resp[1].equity_value_at_exit = Round2(equity_exit)
            /\ resp[1].moic = Round2(moic)

\* A response after growth, so that the final EBITDA is not the entry
\* EBITDA, with a positive exit value.
C4_Witness ==
    /\ pc = "done"
    /\ req.years >= 2
    /\ ebitda # req.entry_ebitda
    /\ QLt(Zero, exit_ev)
    /\ QLt(One, moic)

\* C5 as claimed: every request ends in a response or in the validation
\* error, never in another fault.
C5_NoOtherFault == pc # "fault"

----------------------------------------------------------------------------
(* The deal claims.                                                        *)

\* round(ev / ebitda, 2), and 0.0 on a zero ebitda, as the data model
\* defines the multiple.
ClaimMultiple(ev, ebt) == IF ebt = Zero THEN Zero ELSE Round2(QDiv(ev, ebt))

\* The document of id in a collection that holds it.
DocOf(store, id) == store[CHOOSE i \in 1 .. Len(store) : store[i]["_id"] = id]
Stored(store, id) == \E i \in 1 .. Len(store) : store[i]["_id"] = id

UpdatedEv == ~IsNoneQ(last.arg.ev)
UpdatedEbitda == ~IsNoneQ(last.arg.ebitda)

\* C6: after a successful update_deal whose payload gives ev and/or
\* ebitda and no ev_ebitda, the stored and the returned ev_ebitda are the
\* multiple of the effective values: the payload's where given, else the
\* ones stored before; so changing only ev uses the stored ebitda, and a
\* zero ebitda gives 0.0.
C6_UpdateRecomputesMultiple ==
    (/\ last.op = "update" /\ last.status = "200"
     /\ UpdatedEv \/ UpdatedEbitda
     /\ IsNoneQ(last.arg.ev_ebitda)) =>
      LET before == DocOf(last.pre, last.id)
          after  == DocOf(deals, last.id)
          ev1    == IF UpdatedEv THEN last.arg.ev ELSE before.ev
          ebt1   == IF UpdatedEbitda THEN last.arg.ebitda ELSE before.ebitda
      IN  /\ after.ev = ev1
          /\ after.ebitda = ebt1
          /\ after.ev_ebitda = ClaimMultiple(ev1, ebt1)
          /\ last.out[1].ev_ebitda = ClaimMultiple(ev1, ebt1)
          /\ ebt1 = Zero => last.out[1].ev_ebitda = Zero

\* An update of ev alone has recomputed the multiple from a stored
\* ebitda that is not zero, to a value that needed rounding or not.
C6_Witness ==
    /\ last.op = "update" /\ last.status = "200"
    /\ UpdatedEv /\ ~UpdatedEbitda /\ IsNoneQ(last.arg.ev_ebitda)
    /\ DocOf(last.pre, last.id).ebitda # Zero
    /\ last.out[1].ev_ebitda # DocOf(last.pre, last.id).ev_ebitda
    /\ last.out[1].ev_ebitda = ClaimMultiple(last.arg.ev,
                                             DocOf(last.pre, last.id).ebitda)

\* C7: whatever create_deal, update_deal, delete_deal, the CSV ingestion
\* (and seed_demo) have done, every stored deal whose ev_ebitda is not a
\* value a caller supplied has ev_ebitda = round(ev / ebitda, 2) of its
\* stored ev and ebitda, 0.0 when the ebitda is 0; every stored ev_ebitda
\* is a finite number and no request ends in a fault.
C7_StoredMultipleConsistent ==
    /\ \A i \in 1 .. Len(deals) :
          /\ deals[i]["_id"] \notin supplied =>
                deals[i].ev_ebitda = ClaimMultiple(deals[i].ev, deals[i].ebitda)
          /\ deals[i].ev_ebitda[2] > 0
    /\ last.status \in {"", "200", "400", "404"}

\* An update has set the ebitda of a deal with a nonzero ev to zero, and
\* the stored multiple, which no caller supplied, is 0.0.
C7_Witness ==
    /\ last.op = "update" /\ last.status = "200"
    /\ UpdatedEbitda
    /\ last.id \notin supplied
    /\ DocOf(deals, last.id).ebitda = Zero
    /\ DocOf(deals, last.id).ev # Zero
    /\ DocOf(last.pre, last.id).ev_ebitda # Zero
    /\ DocOf(deals, last.id).ev_ebitda = Zero

IsList == last.op \in {"list", "screener"}

\* A returned deal within the numeric filters, both bounds inclusive.
InRanges(x, f) ==
    /\ ~IsNoneQ(f.revenue_min) => QLe(f.revenue_min, x.revenue)
    /\ ~IsNoneQ(f.revenue_max) => QLe(x.revenue, f.revenue_max)
    /\ ~IsNoneQ(f.ev_ebitda_min) => QLe(f.ev_ebitda_min, x.ev_ebitda)
    /\ ~IsNoneQ(f.ev_ebitda_max) => QLe(x.ev_ebitda, f.ev_ebitda_max)

\* No filter is supplied: every one is null, or an empty string.
NothingSupplied(f) ==
    /\ f.sector \in {NoneS, ""} /\ f.geography \in {NoneS, ""}
    /\ IsNoneQ(f.revenue_min) /\ IsNoneQ(f.revenue_max)
    /\ IsNoneQ(f.ev_ebitda_min) /\ IsNoneQ(f.ev_ebitda_max)

Min(a, b) == IF a < b THEN a ELSE b

\* C8 as claimed: every deal list_deals or screener returns has the
\* sector and the geography that were supplied (anything but null) and
\* lies within the supplied revenue and ev_ebitda bounds, inclusive.
C8_ReturnedSatisfyAllSupplied ==
    IsList =>
      \A k \in 1 .. Len(last.out) :
          /\ last.arg.sector # NoneS => last.out[k].sector = last.arg.sector
          /\ last.arg.geography # NoneS =>
                last.out[k].geography = last.arg.geography
          /\ InRanges(last.out[k], last.arg)

\* C8 as amended: every returned deal has the supplied sector and
\* geography, where an empty string counts as not supplied, and lies
\* within the supplied revenue and ev_ebitda bounds, inclusive; with no
\* filter supplied nothing is excluded (up to the limit).
C8_ReturnedSatisfyAllNonEmpty ==
    IsList =>
      /\ \A k \in 1 .. Len(last.out) :
            /\ last.arg.sector \notin {NoneS, ""} =>
                  last.out[k].sector = last.arg.sector
            /\ last.arg.geography \notin {NoneS, ""} =>
                  last.out[k].geography = last.arg.geography
            /\ InRanges(last.out[k], last.arg)
      /\ NothingSupplied(last.arg) =>
            Len(last.out) = Min(last.id, Len(deals))

\* A query with every kind of filter has returned a deal, out of a
\* collection with deals that fail the sector, the geography and the
\* revenue filter.
C8_Witness ==
    /\ last.op = "screener"
    /\ last.arg.sector = "Healthcare" /\ last.arg.geography = "US"
    /\ ~IsNoneQ(last.arg.revenue_max) /\ ~IsNoneQ(last.arg.ev_ebitda_max)
    /\ Len(last.out) = 1
    /\ Len(deals) = 4

\* The place of a returned deal in the order the storage layer gave.
StoragePos(id) == CHOOSE i \in 1 .. Len(deals) : deals[i]["_id"] = id

\* C9: the returned sequence is in descending score order, and deals of
\* equal score keep the order the storage layer returned them in.
C9_SortedByScoreStable ==
    IsList =>
      \A i, j \in 1 .. Len(last.out) :
          i < j =>
            /\ QLe(last.out[j].score, last.out[i].score)
            /\ last.out[i].score = last.out[j].score =>
                  StoragePos(last.out[i].id) < StoragePos(last.out[j].id)

\* A result of four deals that the sort reordered and that holds two
\* deals of equal score which are not neighbours in storage.
C9_Witness ==
    /\ last.op = "screener"
    /\ Len(last.out) = 4
    /\ last.out[3].score = last.out[4].score
    /\ StoragePos(last.out[4].id) > StoragePos(last.out[3].id) + 1
    /\ StoragePos(last.out[1].id) > StoragePos(last.out[3].id)
    /\ QLt(last.out[3].score, last.out[1].score)

\* The stored deals that satisfy the filters, as positions in storage.
Matching(f) ==
    {i \in 1 .. Len(deals) :
        LET x == serialize_deal(deals[i]) IN
        /\ f.sector \notin {NoneS, ""} => x.sector = f.sector
        /\ f.geography \notin {NoneS, ""} => x.geography = f.geography
        /\ InRanges(x, f)}

\* C10 as claimed: list_deals returns the matching stored deals, all of
\* them when at most limit match and else limit of them, none of which
\* scores below a matching deal that was left out.
C10_TopLimitOfAllMatching ==
    last.op = "list" =>
      LET all      == Matching(last.arg)
          returned == {StoragePos(last.out[k].id) : k \in 1 .. Len(last.out)}
      IN  /\ Len(last.out) = Min(last.id, Cardinality(all))
          /\ returned \subseteq all
          /\ \A a \in all \ returned, r \in returned :
                QLe(serialize_deal(deals[a]).score, serialize_deal(deals[r]).score)

----------------------------------------------------------------------------
(* The frame of the deal mutations.                                        *)

\* Whether a DealUpdate payload supplies field f (a value that is not None).
SuppliedIn(p, f) ==
    /\ f \in DOMAIN p
    /\ IF f \in StrFields THEN p[f] # NoneS ELSE ~IsNoneQ(p[f])

\* C11: a successful update_deal(id, partial) leaves every other stored
\* deal as it was, and in the deal of that id sets each supplied field to
\* the payload's value, updated_at to now, may change ev_ebitda only when
\* ev or ebitda is supplied (or ev_ebitda itself), and leaves every other
\* field, id, created_at and ebitda_margin included, as it was; and no
\* step of any handler changes the id or created_at of a stored deal.
C11_UpdateFrame ==
    [][ /\ (last'.op = "update" /\ last'.status = "200") =>
            LET id == last'.id
                p  == last'.arg
            IN  /\ Len(deals') = Len(deals)
                /\ \A j \in 1 .. Len(deals) :
                      IF deals[j]["_id"] # id
                      THEN deals'[j] = deals[j]
                      ELSE /\ DOMAIN deals'[j] = DOMAIN deals[j]
                           /\ \A f \in DOMAIN deals[j] :
                                 IF f = "updated_at"
                                 THEN deals'[j][f] = clock'
                                 ELSE IF f = "ev_ebitda" /\ (SuppliedIn(p, "ev")
                                                             \/ SuppliedIn(p, "ebitda"))
                                 THEN TRUE
                                 ELSE IF SuppliedIn(p, f)
                                 THEN deals'[j][f] = p[f]
                                 ELSE deals'[j][f] = deals[j][f]
        /\ \A j \in 1 .. Len(deals), k \in 1 .. Len(deals') :
              deals[j]["_id"] = deals'[k]["_id"] =>
                 deals'[k].created_at = deals[j].created_at
      ]_vars

\* An update that supplies only ebitda has succeeded on one of several
\* stored deals, some time after its creation: ebitda and ev_ebitda are
\* new, ebitda_margin is the one stored before and no longer the ratio of
\* the stored ebitda and revenue.
C11_Witness ==
    /\ last.op = "update" /\ last.status = "200"
    /\ Len(deals) >= 2
    /\ SuppliedIn(last.arg, "ebitda")
    /\ \A f \in DOMAIN last.arg : f # "ebitda" => ~SuppliedIn(last.arg, f)
    /\ LET before == DocOf(last.pre, last.id)
           after  == DocOf(deals, last.id)
       IN  /\ after.ebitda # before.ebitda
           /\ after.ev_ebitda # before.ev_ebitda
           /\ after.ebitda_margin = before.ebitda_margin
           /\ after.ebitda_margin # QDiv(after.ebitda, after.revenue)
           /\ after.updated_at > after.created_at

\* The ids of a collection and of a list_deals result.
StoredIds(store) == {store[i]["_id"] : i \in 1 .. Len(store)}
ReturnedIds(out) == {out[i].id : i \in 1 .. Len(out)}

\* C12: delete_deal(id) answers "deleted" exactly when id is stored, and
\* then the collection is the one before without that one deal, the others
\* unchanged and in place; on an id that is not stored it answers NotFound
\* and the collection is unchanged.  An id that was handed out and is not
\* stored is never stored again, and list_deals returns stored deals only,
\* so no later list_deals contains a deleted id and a second delete_deal
\* of it answers NotFound.
C12_DeleteRemovesExactlyOne ==
    [][ /\ last'.op = "delete" =>
            /\ last'.status = (IF last'.id \in StoredIds(deals) THEN "200" ELSE "404")
            /\ last'.status = "200" =>
                  /\ Len(deals') = Len(deals) - 1
                  /\ last'.id \notin StoredIds(deals')
                  /\ deals' = SelectSeq(deals, LAMBDA d : d["_id"] # last'.id)
            /\ last'.status = "404" => deals' = deals
        /\ \A id \in 1 .. nextId - 1 :
              id \notin StoredIds(deals) => id \notin StoredIds(deals')
        /\ last'.op = "list" => ReturnedIds(last'.out) \subseteq StoredIds(deals')
      ]_vars

\* A second delete_deal of an id that was handed out and deleted has
\* answered NotFound, with other deals stored and left as they were.
C12_Witness ==
    /\ last.op = "delete" /\ last.status = "404"
    /\ last.id < nextId
    /\ last.id \notin StoredIds(deals)
    /\ Len(deals) >= 1
    /\ deals = last.pre

\* C13: update_deal(id, partial) on an id that is not stored answers
\* NotFound (404, not the 400 or 422 of a rejected input) and writes
\* nothing: the collection is the same, document for document, and no id
\* is handed out; this holds when the payload gives ev or ebitda (the
\* lookup of line 249 fails) and when it gives neither (the write of line
\* 256 finds no document).  An update of a stored id is not NotFound.
C13_UpdateUnknownIdNotFound ==
    [][ last'.op = "update" =>
          IF last'.id \in StoredIds(deals)
          THEN last'.status = "200"
          ELSE /\ last'.status = "404"
               /\ last'.out = <<>>
               /\ deals' = deals
               /\ nextId' = nextId
      ]_vars

\* An update without ev and ebitda, on an id that is not stored while
\* other deals are, has answered NotFound.
C13_Witness ==
    /\ last.op = "update" /\ last.status = "404"
    /\ ~SuppliedIn(last.arg, "ev") /\ ~SuppliedIn(last.arg, "ebitda")
    /\ SuppliedIn(last.arg, "revenue")
    /\ Len(deals) >= 1
    /\ last.id \notin StoredIds(deals)
    /\ deals = last.pre

\* A list_deals call with no filter and the default limit has returned.
IsDefaultList ==
    /\ last.op = "list"
    /\ last.arg = NoFilter
    /\ last.id = DefaultLimit

----------------------------------------------------------------------------
(* The CSV ingestion claims.                                               *)

\* The alias lists of the required fields, as the ingestion contract
\* gives them.
ClaimAliases ==
    [name      |-> {"name", "company", "company_name"},
     sector    |-> {"sector"},
     geography |-> {"geography", "geo", "country", "region"},
     revenue   |-> {"revenue", "ltm_revenue", "ntm_revenue"},
     ebitda    |-> {"ebitda", "ltm_ebitda", "ntm_ebitda"}]

\* Some required field has no column resolving to it, whatever the case.
ClaimUnresolved(cols) ==
    \E r \in DOMAIN ClaimAliases :
       ~\E i \in 1 .. Len(cols) : Lower(cols[i]) \in ClaimAliases[r]

IsIngest == last.op = "upload_complete" /\ last.arg # <<>>

\* C15: when the header has no column resolving to one of name, sector,
\* geography, revenue, ebitda, the ingestion answers with a validation
\* error (400, missing required column) and the deal store is unchanged;
\* when every required field resolves, it is not rejected.
C15_MissingColumnInsertsNothing ==
    IsIngest =>
       IF ClaimUnresolved(last.arg.columns)
       THEN /\ last.status = "400"
            /\ last.out = <<[detail |-> "Missing required column in CSV"]>>
            /\ deals = last.pre
       ELSE last.status = "200"

\* A file without an ebitda column, whose only row is well formed in
\* every column it has, was rejected while deals were stored.
C15_Witness ==
    /\ IsIngest /\ last.status = "400"
    /\ ClaimUnresolved(last.arg.columns)
    /\ \E i \in 1 .. Len(last.arg.columns) : last.arg.columns[i] = "revenue"
    /\ \A i \in 1 .. Len(last.arg.rows) :
          last.arg.rows[i].revenue.kind = "num"
    /\ Len(deals) >= 1
    /\ deals = last.pre

\* The numeric fields of a row coerce: each one that has a column holds a
\* number in it.
ClaimCoerces(m, row) ==
    \A f \in {"revenue", "ebitda", "ev", "ev_ebitda", "growth_rate", "net_debt"} :
       m[f] # NoneS => row[m[f]].kind = "num"

\* C16: when all required columns resolve, `inserted` is the number of
\* rows that coerce, the store is the one before followed by one deal per
\* such row, in row order, with the row's values, a fresh id distinct
\* from every other, deal_stage "sourced", source "csv_upload" and
\* created_at = updated_at; a row that does not coerce adds nothing and
\* stops no other row, and the request succeeds.
C16_RowFaultIsolation ==
    (IsIngest /\ ~ClaimUnresolved(last.arg.columns)) =>
       LET m    == col_map(last.arg.columns)
           good == SelectSeq(last.arg.rows, LAMBDA row : ClaimCoerces(m, row))
           n    == Len(good)
           old  == Len(last.pre)
       IN  /\ last.status = "200"
           /\ last.out = <<[inserted |-> n]>>
           /\ Len(deals) = old + n
           /\ SubSeq(deals, 1, old) = last.pre
           /\ \A k \in 1 .. n :
                 LET d == deals[old + k] IN
                 /\ d.name = PyStr(good[k][m.name])
                 /\ d.sector = PyStr(good[k][m.sector])
                 /\ d.geography = PyStr(good[k][m.geography])
                 /\ d.revenue = good[k][m.revenue].num
                 /\ d.ebitda = good[k][m.ebitda].num
                 /\ d.deal_stage = "sourced"
                 /\ d.source = "csv_upload"
                 /\ d.created_at = d.updated_at
                 /\ d["_id"] \notin StoredIds(last.pre)
                 /\ \A j \in 1 .. n : j # k => deals[old + j]["_id"] # d["_id"]

\* A file of three rows that coerce and one, the second, that does not
\* (a text in the revenue column) has added three deals to a store that
\* held some.
C16_Witness ==
    /\ IsIngest /\ last.status = "200"
    /\ Len(last.arg.rows) = 4
    /\ last.arg.rows[2].revenue.kind = "str"
    /\ last.out = <<[inserted |-> 3]>>
    /\ Len(last.pre) >= 1
    /\ Len(deals) = Len(last.pre) + 3
    /\ deals[Len(deals)].name = "D"

----------------------------------------------------------------------------
(* The upload protocol claims.                                             *)

\* The indexes at which a folder holds a part.
PartIndexes(folder) ==
    {i \in ChunkIndexes : part_name(i) \in DOMAIN folder.parts}

\* The bytes of the parts in ascending integer index order.
RECURSIVE ClaimAssembled(_, _)
ClaimAssembled(folder, idx) ==
    IF idx = {} THEN <<>>
    ELSE LET i == CHOOSE i \in idx : \A j \in idx : i <= j
         IN  folder.parts[part_name(i)] \o ClaimAssembled(folder, idx \ {i})

\* upload_complete has assembled the parts of a folder.
HasAssembled ==
    /\ last.op = "upload_complete"
    /\ last.id \in DOMAIN uploads
    /\ DOMAIN uploads[last.id].parts # {}

\* C17: whatever order the chunks arrived in, the stream upload_complete
\* assembles is the concatenation of the stored parts in ascending
\* integer index order, each index giving the bytes last written at it.
C17_AssembledInIndexOrder ==
    HasAssembled =>
       uploads[last.id].assembled =
          ClaimAssembled(uploads[last.id], PartIndexes(uploads[last.id]))

\* The ids upload_init has returned.
InitReturned == DOMAIN uploads \ {"."}

\* C19: a step of upload_complete changes the deal store only for an id
\* that upload_init returned and that holds a part; upload_chunk and
\* upload_complete with an id that upload_init did not return are
\* rejected with "Invalid upload_id", upload_complete on a session
\* without parts with "No parts uploaded", and a rejection leaves the deal
\* store and every session as they were.
C19_UploadProtocolOrder ==
    [][ /\ (last'.op = "upload_complete" /\ deals' # deals) =>
              /\ last'.id \in InitReturned
              /\ DOMAIN uploads[last'.id].parts # {}
        /\ (last'.op \in {"upload_chunk", "upload_complete"}
            /\ last'.id \notin InitReturned) =>
              /\ last'.status = "400"
              /\ last'.out = Detail("Invalid upload_id")
              /\ deals' = deals
              /\ uploads' = uploads
        /\ (last'.op = "upload_complete" /\ last'.id \in InitReturned
            /\ DOMAIN uploads[last'.id].parts = {}) =>
              /\ last'.status = "400"
              /\ last'.out = Detail("No parts uploaded")
              /\ deals' = deals
              /\ uploads' = uploads
      ]_vars

----------------------------------------------------------------------------
(* The concurrency claim.                                                  *)

\* A document or a DealOut without its time of update, which depends on
\* when a request is served and not on what it does.
NoTime(d) == [d EXCEPT !.updated_at = 0]
NoTimes(store) ==
    IF store = <<>> THEN <<>> ELSE [i \in 1 .. Len(store) |-> NoTime(store[i])]

\* One request served alone on a collection: the collection after it and
\* its answer.
ClaimServe(store, r) ==
    LET i == find_one(store, r.id) IN
    IF i = 0
    THEN [store |-> store, status |-> "404", out |-> <<>>]
    ELSE IF r.op = "delete"
    THEN [store |-> SelectSeq(store, LAMBDA d : d["_id"] # r.id),
          status |-> "200", out |-> <<>>]
    ELSE LET given == {f \in DOMAIN r.p : SuppliedIn(r.p, f)}
             u     == [f \in given |-> r.p[f]]
             ev1   == IF "ev" \in given THEN r.p.ev ELSE store[i].ev
             ebt1  == IF "ebitda" \in given THEN r.p.ebitda ELSE store[i].ebitda
             u2    == IF "ev" \in given \/ "ebitda" \in given
                      THEN ("ev_ebitda" :> ClaimMultiple(ev1, ebt1)) @@ u
                      ELSE u
             new   == u2 @@ store[i]
         IN  [store |-> [store EXCEPT ![i] = new], status |-> "200",
              out |-> <<serialize_deal(new)>>]

\* The requests served one after another in the given order.
RECURSIVE ClaimSerial(_, _)
ClaimSerial(order, store) ==
    IF order = <<>> THEN [store |-> store, answers |-> <<>>]
    ELSE LET one  == ClaimServe(store, procs[order[1]])
             rest == ClaimSerial(Tail(order), one.store)
         IN  [store   |-> rest.store,
              answers |-> (order[1] :> [status |-> one.status, out |-> one.out])
                          @@ rest.answers]

\* The orders in which n requests can be served one after another.
Orders(n) ==
    {o \in [1 .. n -> 1 .. n] : \A a, b \in 1 .. n : a # b => o[a] # o[b]}

AllAnswered == procs # <<>> /\ \A k \in 1 .. Len(procs) : procs[k].pc = "done"

\* C18: when the concurrent update_deal and delete_deal requests have all
\* been answered, the stored deals and every answer are those of serving
\* the same requests one after another in some order, from the collection
\* that the first of them found; so every answer is DealOut or NotFound
\* and the stored ev_ebitda is the multiple of the stored ev and ebitda.
C18_SerialEquivalent ==
    AllAnswered =>
       \E o \in Orders(Len(procs)) :
          LET serial == ClaimSerial(o, NoTimes(procs[1].base)) IN
          /\ NoTimes(deals) = serial.store
          /\ \A k \in 1 .. Len(procs) :
                /\ procs[k].status = serial.answers[k].status
                /\ procs[k].status = "200" /\ procs[k].op = "update" =>
                      NoTime(procs[k].out[1]) = serial.answers[k].out[1]
====
